---- MODULE Spec2Model ----
(***************************************************************************)
(* A model of package serr (mikeschinkel/go-serr): the text functions      *)
(* Excerpt and Diff, modelled on byte strings with UTF-8 decoding as the   *)
(* code performs it, and the structured error sError.                      *)
(***************************************************************************)
EXTENDS Integers, Sequences, FiniteSets, TLC

(***************************************************************************)
(* Bounds of the model.                                                    *)
(***************************************************************************)
\* longest input string (in bytes) handed to Excerpt
MaxExcerptLen == 6
\* largest width handed to Excerpt
MaxWidth == 5
\* longest input string (in bytes) handed to Diff
MaxDiffLen == 3
\* largest budget n handed to Diff
MaxN == 2

\* The bytes input strings are made of: 'A', and 0xC3 0xA9, the two bytes of
\* U+00E9; a lone 0xC3 or 0xA9 is invalid UTF-8.
ByteAlphabet == {65, 195, 169}

Strings(k) == UNION {[1..m -> ByteAlphabet] : m \in 0..k}

\* the budgets handed to Diff: n is a Go int, so it may be negative
Budgets == (0 - 1)..MaxN

(***************************************************************************)
(* State.                                                                  *)
(***************************************************************************)
\* a call of a text function
VARIABLES
  fn,     \* the function called: "Excerpt", "Diff", or "none"
  s1,     \* the first argument string (Excerpt's s)
  s2,     \* Diff's second argument string
  nArg,      \* Diff's n, Excerpt's width
  b1,     \* Diff's local byte slice b1
  b2,     \* Diff's local byte slice b2
  start,  \* Diff's result start
  end,    \* Diff's result end
  r1,     \* the first returned string
  r2,     \* the second returned string
  tpc     \* position in the function: "call", "prefix", "suffix", "done"

\* the structured errors and the program that builds them
VARIABLES
  rev,       \* the revision of the package that runs
  heap,      \* the sError values allocated so far, by address 1..Len(heap)
  calls,     \* number of builder calls made
  last,      \* the last builder call: its arguments, what it returned,
             \* whether it panicked
  attached,  \* history: per sError, the cause most recently attached to the
             \* error it was built from
  sealedTo   \* history: per sError, the keys of its first ValidArgs call and
             \* the number of ValidArgs calls made on it (counted to 2)

\* the calls of Error() in progress
VARIABLES
  stack,   \* per goroutine, the frames of Error() in progress, innermost last
  mutex,   \* the package's sync.RWMutex: the goroutine holding the write lock
  res      \* per goroutine, the outcome of its last call of Error()

textVars == <<fn, s1, s2, nArg, b1, b2, start, end, r1, r2, tpc>>

errVars == <<rev, heap, calls, last, attached, sealedTo, stack, mutex, res>>

vars == <<textVars, errVars>>

(***************************************************************************)
(* unicode/utf8, as far as the package uses it.                            *)
(***************************************************************************)
RuneError == 65533

EllipsisRune == 8230

IsCont(x) == x >= 128 /\ x <= 191

\* utf8.DecodeRune: the first rune of p and its width in bytes; an invalid
\* or incomplete encoding is (RuneError, 1), an empty slice (RuneError, 0).
DecodeRune(p) ==
  IF Len(p) = 0 THEN [r |-> RuneError, size |-> 0]
  ELSE IF p[1] < 128 THEN [r |-> p[1], size |-> 1]
  ELSE IF p[1] >= 194 /\ p[1] <= 223 /\ Len(p) >= 2 /\ IsCont(p[2])
    THEN [r |-> (p[1] - 192) * 64 + (p[2] - 128), size |-> 2]
  ELSE IF p[1] >= 224 /\ p[1] <= 239 /\ Len(p) >= 3 /\ IsCont(p[2]) /\ IsCont(p[3])
          /\ (p[1] = 224 => p[2] >= 160) /\ (p[1] = 237 => p[2] <= 159)
    THEN [r |-> (p[1] - 224) * 4096 + (p[2] - 128) * 64 + (p[3] - 128), size |-> 3]
  ELSE IF p[1] >= 240 /\ p[1] <= 244 /\ Len(p) >= 4
          /\ IsCont(p[2]) /\ IsCont(p[3]) /\ IsCont(p[4])
          /\ (p[1] = 240 => p[2] >= 144) /\ (p[1] = 244 => p[2] <= 143)
    THEN [r |-> (p[1] - 240) * 262144 + (p[2] - 128) * 4096
                  + (p[3] - 128) * 64 + (p[4] - 128), size |-> 4]
  ELSE [r |-> RuneError, size |-> 1]

\* utf8.RuneStart
RuneStart(x) == ~IsCont(x)

\* the start index (1-based) DecodeLastRune backs up to: the nearest rune
\* start among the last UTFMax = 4 bytes, else the limit itself
RECURSIVE BackUp(_, _, _)
BackUp(p, i, lim) ==
  IF i < lim THEN lim
  ELSE IF RuneStart(p[i]) THEN i
  ELSE BackUp(p, i - 1, lim)

\* utf8.DecodeLastRune: the last rune of p and its width in bytes
DecodeLastRune(p) ==
  IF Len(p) = 0 THEN [r |-> RuneError, size |-> 0]
  ELSE IF p[Len(p)] < 128 THEN [r |-> p[Len(p)], size |-> 1]
  ELSE LET lim == IF Len(p) - 4 < 0 THEN 1 ELSE Len(p) - 4 + 1
           st  == BackUp(p, Len(p) - 1, lim)
           d   == DecodeRune(SubSeq(p, st, Len(p)))
       IN IF st + d.size - 1 # Len(p)
            THEN [r |-> RuneError, size |-> 1]
            ELSE d

\* the UTF-8 encoding of one rune (string(rune))
EncodeRune(r) ==
  IF r < 128 THEN <<r>>
  ELSE IF r < 2048 THEN <<192 + (r \div 64), 128 + (r % 64)>>
  ELSE IF r < 65536
    THEN <<224 + (r \div 4096), 128 + ((r \div 64) % 64), 128 + (r % 64)>>
  ELSE <<240 + (r \div 262144), 128 + ((r \div 4096) % 64),
         128 + ((r \div 64) % 64), 128 + (r % 64)>>

\* string([]rune): the concatenated encodings
RECURSIVE EncodeRunes(_)
EncodeRunes(rs) ==
  IF rs = <<>> THEN <<>> ELSE EncodeRune(Head(rs)) \o EncodeRunes(Tail(rs))

\* the runes of a string in order, as the range loop and DecodeRune see them
RECURSIVE Runes(_)
Runes(s) ==
  IF s = <<>> THEN <<>>
  ELSE LET d == DecodeRune(s)
       IN <<d.r>> \o Runes(SubSeq(s, d.size + 1, Len(s)))

\* utf8.RuneCountInString
RuneCountInString(s) == Len(Runes(s))

\* Go's integer division and remainder truncate toward zero
GoDiv(a, b) == IF a >= 0 THEN a \div b ELSE 0 - ((0 - a) \div b)

GoMod(a, b) == a - b * GoDiv(a, b)

Reverse(rs) == [i \in 1..Len(rs) |-> rs[Len(rs) + 1 - i]]

(***************************************************************************)
(* Excerpt and its helpers.                                                *)
(***************************************************************************)
\* the loop of prefixRunes: `for i, r := range input`, where i is the BYTE
\* offset of rune r in input; the loop breaks once i >= n
RECURSIVE prefixLoop(_, _, _, _)
prefixLoop(input, i, n, result) ==
  IF i >= Len(input) \/ i >= n THEN result
  ELSE LET d == DecodeRune(SubSeq(input, i + 1, Len(input)))
       IN prefixLoop(input, i + d.size, n, Append(result, d.r))

prefixRunes(input, n) == EncodeRunes(prefixLoop(input, 0, n, <<>>))

\* the loop of suffixRunes: strip the last rune while count < n
RECURSIVE suffixLoop(_, _, _, _)
suffixLoop(b, count, n, result) ==
  IF ~(count < n /\ Len(b) > 0) THEN result
  ELSE LET d == DecodeLastRune(b)
       IN suffixLoop(SubSeq(b, 1, Len(b) - d.size), count + 1, n,
                     Append(result, d.r))

suffixRunes(input, n) == EncodeRunes(Reverse(suffixLoop(input, 0, n, <<>>)))

Excerpt(s, width) ==
  LET cnt    == RuneCountInString(s)
      prefix == GoDiv(width, 2)
      suffix == IF cnt >= width /\ GoMod(width, 2) = 0 THEN prefix - 1 ELSE prefix
  IN IF cnt <= width THEN s
     ELSE prefixRunes(s, prefix) \o EncodeRune(EllipsisRune) \o suffixRunes(s, suffix)

(***************************************************************************)
(* State of a call of a text function.                                     *)
(***************************************************************************)
TextInit ==
  /\ fn \in {"Excerpt", "Diff"}
  /\ IF fn = "Excerpt"
       THEN /\ s1 \in Strings(MaxExcerptLen)
            /\ s2 = <<>>
            /\ nArg \in 0..MaxWidth
            /\ tpc = "call"
       ELSE /\ s1 \in Strings(MaxDiffLen)
            /\ s2 \in Strings(MaxDiffLen)
            /\ nArg \in Budgets
            /\ tpc = "prefix"
  /\ b1 = s1 /\ b2 = s2
  /\ start = 0 /\ end = 0
  /\ r1 = <<>> /\ r2 = <<>>
  /\ rev = "mutex"
  /\ heap = <<>> /\ calls = 0
  /\ last = [op |-> "none", recv |-> 0, cause |-> 0, args |-> <<>>,
             keys |-> <<>>, ret |-> 0, panicked |-> FALSE]
  /\ attached = <<>> /\ sealedTo = <<>>
  /\ stack = [t \in {"t1", "t2"} |-> <<>>]
  /\ mutex = "none"
  /\ res = [t \in {"t1", "t2"} |-> [se |-> 0, text |-> <<>>, st |-> "none"]]

\* Excerpt(s, width), called on its own
ExcerptCall ==
  /\ fn = "Excerpt" /\ tpc = "call"
  /\ r1' = Excerpt(s1, nArg)
  /\ tpc' = "done"
  /\ UNCHANGED <<errVars, fn, s1, s2, nArg, b1, b2, start, end, r2>>

\* DiffPrefixStep as a byte-wise scan would do it: compare and strip one byte
DiffPrefixStepBytewise ==
  /\ fn = "Diff" /\ tpc = "prefix"
  /\ Len(b1) > 0 /\ Len(b2) > 0
  /\ b1[1] = b2[1]
  /\ b1' = Tail(b1)
  /\ b2' = Tail(b2)
  /\ start' = start + 1
  /\ UNCHANGED <<errVars, fn, s1, s2, nArg, end, r1, r2, tpc>>

\* Diff, first loop: one iteration that finds equal leading runes
DiffPrefixStep ==
  /\ fn = "Diff" /\ tpc = "prefix"
  /\ Len(b1) > 0 /\ Len(b2) > 0
  /\ DecodeRune(b1).r = DecodeRune(b2).r
  /\ b1' = SubSeq(b1, DecodeRune(b1).size + 1, Len(b1))
  /\ b2' = SubSeq(b2, DecodeRune(b2).size + 1, Len(b2))
  /\ start' = start + 1
  /\ UNCHANGED <<errVars, fn, s1, s2, nArg, end, r1, r2, tpc>>

\* DiffSame without the early exit: the empty slices go on to the excerpting
DiffSameFallsThrough ==
  /\ fn = "Diff" /\ tpc = "prefix"
  /\ Len(b1) + Len(b2) = 0
  /\ r1' = (IF Len(b1) > nArg THEN Excerpt(b1, nArg) ELSE b1)
  /\ r2' = (IF Len(b2) > nArg THEN Excerpt(b2, nArg) ELSE b2)
  /\ tpc' = "done"
  /\ UNCHANGED <<errVars, fn, s1, s2, nArg, b1, b2, start, end>>

\* Diff, first loop left with both slices empty: the strings were the same
DiffSame ==
  /\ fn = "Diff" /\ tpc = "prefix"
  /\ Len(b1) + Len(b2) = 0
  /\ r1' = <<>> /\ r2' = <<>>
  /\ tpc' = "done"
  /\ UNCHANGED <<errVars, fn, s1, s2, nArg, b1, b2, start, end>>

\* Diff, first loop left by break or by one slice running out
DiffPrefixExit ==
  /\ fn = "Diff" /\ tpc = "prefix"
  /\ ~(Len(b1) > 0 /\ Len(b2) > 0 /\ DecodeRune(b1).r = DecodeRune(b2).r)
  /\ Len(b1) + Len(b2) # 0
  /\ tpc' = "suffix"
  /\ UNCHANGED <<errVars, fn, s1, s2, nArg, b1, b2, start, end, r1, r2>>

\* DiffSuffixStep counting the bytes it strips instead of the runes
DiffSuffixStepCountsBytes ==
  /\ fn = "Diff" /\ tpc = "suffix"
  /\ Len(b1) > 0 /\ Len(b2) > 0
  /\ DecodeLastRune(b1).r = DecodeLastRune(b2).r
  /\ b1' = SubSeq(b1, 1, Len(b1) - DecodeLastRune(b1).size)
  /\ b2' = SubSeq(b2, 1, Len(b2) - DecodeLastRune(b2).size)
  /\ end' = end + DecodeLastRune(b1).size
  /\ UNCHANGED <<errVars, fn, s1, s2, nArg, start, r1, r2, tpc>>

\* Diff, second loop: one iteration that finds equal trailing runes
DiffSuffixStep ==
  /\ fn = "Diff" /\ tpc = "suffix"
  /\ Len(b1) > 0 /\ Len(b2) > 0
  /\ DecodeLastRune(b1).r = DecodeLastRune(b2).r
  /\ b1' = SubSeq(b1, 1, Len(b1) - DecodeLastRune(b1).size)
  /\ b2' = SubSeq(b2, 1, Len(b2) - DecodeLastRune(b2).size)
  /\ end' = end + 1
  /\ UNCHANGED <<errVars, fn, s1, s2, nArg, start, r1, r2, tpc>>

\* Diff, after the second loop: each slice longer than n bytes is excerpted
DiffBound(b, width) == IF Len(b) > width THEN Excerpt(b, width) ELSE b

DiffSuffixExit ==
  /\ fn = "Diff" /\ tpc = "suffix"
  /\ ~(Len(b1) > 0 /\ Len(b2) > 0 /\ DecodeLastRune(b1).r = DecodeLastRune(b2).r)
  /\ r1' = DiffBound(b1, nArg)
  /\ r2' = DiffBound(b2, nArg)
  /\ tpc' = "done"
  /\ UNCHANGED <<errVars, fn, s1, s2, nArg, b1, b2, start, end>>

TextNext ==
  \/ ExcerptCall
  \/ DiffPrefixStep
  \/ DiffSame
  \/ DiffPrefixExit
  \/ DiffSuffixStep
  \/ DiffSuffixExit

(***************************************************************************)
(* What the text functions are expected to return, stated on the runes of  *)
(* the arguments and independently of the loops above.                     *)
(***************************************************************************)
Min(a, b) == IF a <= b THEN a ELSE b

Max(a, b) == IF a >= b THEN a ELSE b

\* the last k elements of a sequence (none when k <= 0)
LastK(x, k) == SubSeq(x, Len(x) - Max(k, 0) + 1, Len(x))

\* number of leading elements two sequences have in common
CommonPrefixLen(x, y) ==
  CHOOSE k \in 0..Min(Len(x), Len(y)) :
    /\ \A i \in 1..k : x[i] = y[i]
    /\ (k < Min(Len(x), Len(y)) => x[k + 1] # y[k + 1])

\* number of trailing elements two sequences have in common
CommonSuffixLen(x, y) == CommonPrefixLen(Reverse(x), Reverse(y))

\* the bytes of s that hold its runes from+1 .. Len(Runes(s))-drop
RuneSlice(s, from, drop) ==
  LET rs    == Runes(s)
      RECURSIVE off(_, _)
      off(k, pos) == IF k = 0 THEN pos
                     ELSE off(k - 1, pos + DecodeRune(SubSeq(s, pos + 1, Len(s))).size)
  IN SubSeq(s, off(from, 0) + 1, off(Len(rs) - drop, 0))

\* the differing middle region of a, compared with b
Middle(a, b) ==
  LET p    == CommonPrefixLen(Runes(a), Runes(b))
      ra   == SubSeq(Runes(a), p + 1, Len(Runes(a)))
      rb   == SubSeq(Runes(b), p + 1, Len(Runes(b)))
      q    == CommonSuffixLen(ra, rb)
  IN RuneSlice(a, p, q)

DiffDone == fn = "Diff" /\ tpc = "done"

ExcerptDone == fn = "Excerpt" /\ tpc = "done"

\* C6: for every string s and width w >= 0, the rune count of Excerpt(s, w)
\* is min(w, runeCount(s)).
C6_ExcerptRuneCount ==
  ExcerptDone => RuneCountInString(r1) = Min(nArg, RuneCountInString(s1))

\* C7: when runeCount(s) > w, Excerpt(s, w) is the first w/2 runes of s, one
\* ellipsis rune, then the last w/2 runes of s (w odd) or the last w/2 - 1
\* runes (w even), counted in runes.
C7_ExcerptShape ==
  (ExcerptDone /\ RuneCountInString(s1) > nArg) =>
    Runes(r1) = SubSeq(Runes(s1), 1, nArg \div 2) \o <<EllipsisRune>>
                \o LastK(Runes(s1), IF nArg % 2 = 1 THEN nArg \div 2 ELSE nArg \div 2 - 1)

\* C8 as stated: Diff returns for each string its differing middle region,
\* unchanged when its byte length does not exceed n and as Excerpt(middle, n)
\* when it does, each string decided independently.
C8_DiffMiddleAlways ==
  DiffDone =>
    /\ r1 = (IF Len(Middle(s1, s2)) > nArg THEN Excerpt(Middle(s1, s2), nArg)
             ELSE Middle(s1, s2))
    /\ r2 = (IF Len(Middle(s2, s1)) > nArg THEN Excerpt(Middle(s2, s1), nArg)
             ELSE Middle(s2, s1))

\* C8 as amended: the same, except that when the two strings hold the same
\* runes both regions are returned empty and are never excerpted.
C8_DiffMiddle ==
  DiffDone =>
    IF Runes(s1) = Runes(s2)
      THEN r1 = <<>> /\ r2 = <<>>
      ELSE /\ r1 = (IF Len(Middle(s1, s2)) > nArg THEN Excerpt(Middle(s1, s2), nArg)
                    ELSE Middle(s1, s2))
           /\ r2 = (IF Len(Middle(s2, s1)) > nArg THEN Excerpt(Middle(s2, s1), nArg)
                    ELSE Middle(s2, s1))

\* a Diff that excerpted its first differing region and left the second alone
C8_Witness ==
  /\ DiffDone
  /\ s1 = <<65, 65, 65>> /\ s2 = <<65>>
  /\ nArg = 1
  /\ start = 1 /\ end = 0
  /\ r1 = EncodeRune(EllipsisRune) /\ r2 = <<>>

\* C9: start + runeCount(m1) + end = runeCount(s1), and the same for s2,
\* with m1 and m2 the differing regions before excerpting.
C9_DiffCounts ==
  DiffDone =>
    /\ start + RuneCountInString(b1) + end = RuneCountInString(s1)
    /\ start + RuneCountInString(b2) + end = RuneCountInString(s2)

\* a Diff of a string of one repeated rune with a proper prefix of it
C9_Witness ==
  /\ DiffDone
  /\ s1 = <<65, 65>> /\ s2 = <<65, 65, 65>>
  /\ start = 2 /\ end = 0
  /\ b1 = <<>> /\ b2 = <<65>>

\* C10: Diff(s, s, n) returns two empty strings, start = runeCount(s) and
\* end = 0, for every s and n.
C10_DiffSame ==
  (DiffDone /\ s1 = s2) =>
    r1 = <<>> /\ r2 = <<>> /\ start = RuneCountInString(s1) /\ end = 0

\* a Diff of a non-empty multi-byte string with itself under a negative n
C10_Witness ==
  /\ DiffDone
  /\ s1 = <<65, 195, 169>> /\ s2 = s1
  /\ nArg < 0
  /\ start = 2

(***************************************************************************)
(* The structured error, sError.  The repository holds three revisions of  *)
(* the type; the model runs each of them:                                  *)
(*   "mutex"  src/unnamed/part_000      in-place builders, guard list      *)
(*                                      under a sync.RWMutex               *)
(*   "clone"  src/serr.go, lines 1-420  Args and Err return CloneWrap(),   *)
(*                                      ValidArgs is sealed, no mutex      *)
(*   "plain"  src/serr.go, from 422     in-place builders, no guard list   *)
(***************************************************************************)
Revisions == {"mutex", "clone", "plain"}

\* most sError values a run allocates
MaxNodes == 3
\* most builder calls (New, Cast, Wrap, Args, Err, ValidArgs) a run makes
MaxCalls == 3

\* values of type any held in an attribute list: an int, a string, or (in
\* revision "plain") a []any appended as one element
IntVal(i) == [t |-> "int", i |-> i, s |-> "", l |-> <<>>]

StrVal(s) == [t |-> "string", i |-> 0, s |-> s, l |-> <<>>]

SliceVal(l) == [t |-> "slice", i |-> 0, s |-> "", l |-> l]

\* the messages New and Wrap are called with
Msgs == {"boom", "context", "m"}

\* the attribute lists Args is called with (two of them of odd length)
ArgLists ==
  { <<>>,
    <<StrVal("a"), IntVal(1)>>,
    <<StrVal("a"), IntVal(1), StrVal("b"), IntVal(2)>>,
    <<StrVal("k"), StrVal("v")>>,
    <<StrVal("a")>>,
    <<StrVal("a"), IntVal(1), StrVal("b")>> }

\* the attribute lists Cast, Wrap and Err are called with
ErrArgLists == { <<>>, <<StrVal("b"), IntVal(2)>>, <<StrVal("b")>> }

\* the key lists ValidArgs is called with
KeyLists == { <<"a">>, <<"a", "b">> }

\* an error value: 0 is nil, PlainErr is errors.New("io"), which is no
\* sError, and k in 1..Len(heap) is the sError heap[k]
PlainErr == 0 - 1

PlainMsg == "io"

IsNode(e) == e >= 1

\* &sError{error: ...}
NewNode(msg) ==
  [error |-> msg, err |-> 0, args |-> <<>>, validArgs |-> <<>>,
   recurs |-> <<>>, sealed |-> FALSE, locked |-> FALSE, cloneWrapped |-> FALSE]

\* The builders are written as operators on a record m = [heap, ret,
\* panicked] so that one may call another as in the code; ret is the value
\* returned, and a panic leaves the heap as it was when it was raised.
Start(h) == [heap |-> h, ret |-> 0, panicked |-> FALSE]

Alloc(m, node) ==
  [m EXCEPT !.heap = Append(m.heap, node), !.ret = Len(m.heap) + 1]

\* New(msg)
New(m, msg) == Alloc(m, NewNode(msg))

\* Clone: a shallow copy; locked and cloneWrapped are not copied
\* (the copy's recurs slice is a value of its own here: the backing array it
\* shares with the original in Go is not modelled; builder calls run while no
\* render does, so the list copied is empty)
Clone(m, se) ==
  Alloc(m, [error |-> m.heap[se].error, err |-> m.heap[se].err,
            args |-> m.heap[se].args, validArgs |-> m.heap[se].validArgs,
            recurs |-> m.heap[se].recurs, sealed |-> m.heap[se].sealed,
            locked |-> FALSE, cloneWrapped |-> FALSE])

\* CloneWrap: a clone whose err is the receiver
CloneWrap(m, se) ==
  LET c == Clone(m, se)
  IN [c EXCEPT !.heap[c.ret].cloneWrapped = TRUE, !.heap[c.ret].err = se]

\* chkArgs: panics on an odd count
chkArgs(m, count) == IF count % 2 # 0 THEN [m EXCEPT !.panicked = TRUE] ELSE m

\* se.Args(args...)
Args(m, se, args) ==
  LET c == chkArgs(m, Len(args))
      a == [c EXCEPT !.heap[se].args = args, !.ret = se]
  IN IF c.panicked THEN c
     ELSE IF rev = "clone" THEN CloneWrap(a, se)
     ELSE a

\* se.Err(err, args...): the cause is stored before the attributes are
\* looked at
Err(m, se, err, args) ==
  LET e == [m EXCEPT !.heap[se].err = err, !.ret = se]
  IN CASE rev = "mutex" ->
            IF Len(args) > 0 THEN Args(e, se, args) ELSE e
       [] rev = "clone" ->
            IF Len(args) > 0
              THEN LET a == Args(e, se, args)
                   IN IF a.panicked THEN a ELSE CloneWrap(a, a.ret)
              ELSE CloneWrap(e, se)
       [] rev = "plain" ->
            IF Len(args) > 0
              THEN LET c == chkArgs(e, Len(args))
                   IN IF c.panicked THEN c
                      ELSE IF c.heap[se].args = <<>>
                        THEN [c EXCEPT !.heap[se].args = args]
                        ELSE [c EXCEPT !.heap[se].args =
                                         Append(c.heap[se].args, SliceVal(args))]
              ELSE e

\* Wrap(err, msg, args...)
Wrap(m, err, msg, args) ==
  LET sErr == Err(New(m, msg), Len(m.heap) + 1, err, <<>>)
  IN IF Len(args) > 0 THEN Args(sErr, sErr.ret, args) ELSE sErr

\* Cast(err, args...); revision "plain" has Cast(err) only and always
\* allocates
Cast(m, err, args) ==
  LET msg  == IF err = PlainErr THEN PlainMsg ELSE m.heap[err].error
      sErr == IF rev = "plain" THEN Alloc(m, NewNode(msg))
              ELSE IF err = 0 THEN [m EXCEPT !.ret = 0]
              ELSE IF IsNode(err) THEN [m EXCEPT !.ret = err]
              ELSE Alloc(m, NewNode(msg))
  IN IF rev # "plain" /\ err # 0 /\ Len(args) > 0
       THEN Args(sErr, sErr.ret, args)
       ELSE sErr

\* se.ValidArgs(args...): only revision "clone" seals
ValidArgs(m, se, keys) ==
  IF rev = "clone" /\ m.heap[se].sealed THEN [m EXCEPT !.panicked = TRUE]
  ELSE [m EXCEPT !.heap[se].validArgs = keys,
                 !.heap[se].sealed = (rev = "clone"),
                 !.ret = se]

\* se.Unwrap()
Unwrap(se) == heap[se].err

(***************************************************************************)
(* Rendering: Error(), selfError(), recursing() and argsString().  A text  *)
(* is the sequence of the pieces written to it, in order.                  *)
(***************************************************************************)
\* the goroutines that may call Error()
Threads == {"t1", "t2"}

\* the goroutines that call Error() in Spec, where one caller runs
Callers == {"t1"}

\* frames of Error() a goroutine stack holds before the runtime ends the
\* program with a stack overflow; a render that returns never nests deeper
\* than twice the number of values
MaxDepth == 2 * MaxNodes + 2

Digit == <<"0", "1", "2", "3", "4", "5", "6", "7", "8", "9">>

\* the decimal form of an int, as %v prints it
RECURSIVE Itoa(_)
Itoa(i) ==
  IF i < 0 THEN <<"-">> \o Itoa(0 - i)
  ELSE IF i < 10 THEN <<Digit[i + 1]>>
  ELSE Itoa(i \div 10) \o <<Digit[(i % 10) + 1]>>

\* fmt.Sprintf("%v", v)
RECURSIVE FmtV(_)
FmtV(v) ==
  CASE v.t = "int" -> Itoa(v.i)
    [] v.t = "string" -> <<v.s>>
    [] v.t = "slice" ->
         LET RECURSIVE elems(_)
             elems(k) == IF k > Len(v.l) THEN <<>>
                         ELSE (IF k > 1 THEN <<" ">> ELSE <<>>)
                              \o FmtV(v.l[k]) \o elems(k + 1)
         IN <<"[">> \o elems(1) \o <<"]">>

\* the loop of argsString, from index i (0-based) on
RECURSIVE argsLoop(_, _)
argsLoop(args, i) ==
  IF ~(i < Len(args) - 1) THEN <<>>
  ELSE <<" [">> \o FmtV(args[i + 1]) \o <<"=">>
       \o (IF args[i + 2].t = "string"
             THEN <<"'", args[i + 2].s, "'">>
             ELSE FmtV(args[i + 2]))
       \o <<"]">> \o argsLoop(args, i + 2)

argsString(se) == argsLoop(heap[se].args, 0)

\* self != "": a text is the empty string when all its pieces are
NonEmpty(text) == \E k \in 1..Len(text) : text[k] # ""

\* recursing(): is se in its own guard list
recursing(se) == \E k \in 1..Len(heap[se].recurs) : heap[se].recurs[k] = se

\* a call of Error() on se: where it is, selfError's result self,
\* recursing()'s result yes, and the guard list as selfError last read it
Frame(se) == [se |-> se, pc |-> "Error", self |-> <<>>, yes |-> FALSE, seen |-> <<>>]

Top(t) == stack[t][Len(stack[t])]

SetTop(t, f) == [stack EXCEPT ![t][Len(stack[t])] = f]

Running == \E t \in Threads : stack[t] # <<>>

\* the runtime has ended the program: stack overflow, or a panic in a render
Overflowed == \E t \in Threads : res[t].st \in {"overflow", "panic"}

\* goroutine t is inside Error() and the program has not been ended
Active(t) == ~Overflowed /\ stack[t] # <<>>

NoRes == [se |-> 0, text |-> <<>>, st |-> "none"]

\* a goroutine calls se.Error() on one of the values
ErrorCall(t) ==
  /\ stack[t] = <<>>
  /\ ~last.panicked /\ ~Overflowed
  /\ \E se \in 1..Len(heap) :
       /\ stack' = [stack EXCEPT ![t] = <<Frame(se)>>]
       /\ res' = [res EXCEPT ![t] = [se |-> se, text |-> <<>>, st |-> "running"]]
  /\ UNCHANGED <<textVars, rev, heap, calls, last, attached, sealedTo, mutex>>

\* the frame on top returns text s to its caller: to the selfError (or, in
\* revision "plain", the Sprintf) of the frame below, or to the goroutine
Return(t, s) ==
  IF Len(stack[t]) = 1
    THEN /\ stack' = [stack EXCEPT ![t] = <<>>]
         /\ res' = [res EXCEPT ![t].text = s, ![t].st = "done"]
    ELSE /\ stack' = [stack EXCEPT ![t] =
                        [k \in 1..(Len(stack[t]) - 1) |->
                           IF k = Len(stack[t]) - 1
                             THEN [stack[t][k] EXCEPT !.self = s, !.pc = "returned"]
                             ELSE stack[t][k]]]
         /\ res' = res

\* Error() of a value without a cause
ErrorNoCause(t) ==
  /\ Active(t) /\ Top(t).pc = "Error"
  /\ heap[Top(t).se].err = 0
  /\ Return(t, <<heap[Top(t).se].error>> \o argsString(Top(t).se))
  /\ UNCHANGED <<textVars, rev, heap, calls, last, attached, sealedTo, mutex>>

\* Error() of a value with a cause: on to selfError (revision "plain": on to
\* the call of the cause's Error())
ErrorWithCause(t) ==
  /\ Active(t) /\ Top(t).pc = "Error"
  /\ heap[Top(t).se].err # 0
  /\ stack' = SetTop(t, [Top(t) EXCEPT !.pc =
                            IF rev = "plain" THEN "call" ELSE "recursing"])
  /\ UNCHANGED <<textVars, rev, heap, calls, last, attached, sealedTo, mutex, res>>

\* selfError: recursing(), under the read lock in revision "mutex".  RLock
\* waits while a goroutine holds the write lock, this one included.
SelfErrorRecursing(t) ==
  /\ Active(t) /\ Top(t).pc = "recursing"
  /\ rev = "mutex" => mutex = "none"
  /\ stack' = SetTop(t, [Top(t) EXCEPT
                            !.yes = recursing(Top(t).se),
                            !.pc = IF recursing(Top(t).se) THEN "format" ELSE "lock"])
  /\ UNCHANGED <<textVars, rev, heap, calls, last, attached, sealedTo, mutex, res>>

\* selfError: mutex.Lock() in revision "mutex", then append's operand
\* se.recurs is read.  Without the mutex the read and the assignment that
\* follows are two steps that another goroutine's may come between.
SelfErrorLock(t) ==
  /\ Active(t) /\ Top(t).pc = "lock"
  /\ rev = "mutex" => mutex = "none"
  /\ mutex' = IF rev = "mutex" THEN t ELSE mutex
  /\ stack' = SetTop(t, [Top(t) EXCEPT !.pc = "append",
                                       !.seen = heap[Top(t).se].recurs])
  /\ UNCHANGED <<textVars, rev, heap, calls, last, attached, sealedTo, res>>

\* selfError: se.recurs = append(se.recurs, se)
SelfErrorPush(t) ==
  /\ Active(t) /\ Top(t).pc = "append"
  /\ heap' = [heap EXCEPT ![Top(t).se].recurs = Append(Top(t).seen, Top(t).se)]
  /\ stack' = SetTop(t, [Top(t) EXCEPT !.pc = "call"])
  /\ UNCHANGED <<textVars, rev, calls, last, attached, sealedTo, mutex, res>>

\* se.err.Error() where the cause is no sError: its message
CallPlain(t) ==
  /\ Active(t) /\ Top(t).pc = "call"
  /\ heap[Top(t).se].err = PlainErr
  /\ stack' = SetTop(t, [Top(t) EXCEPT !.pc = "returned", !.self = <<PlainMsg>>])
  /\ UNCHANGED <<textVars, rev, heap, calls, last, attached, sealedTo, mutex, res>>

\* se.err.Error() where the cause is an sError: a new frame
CallNode(t) ==
  /\ Active(t) /\ Top(t).pc = "call"
  /\ IsNode(heap[Top(t).se].err)
  /\ Len(stack[t]) < MaxDepth
  /\ stack' = [stack EXCEPT ![t] =
                 Append(@, Frame(heap[Top(t).se].err))]
  /\ UNCHANGED <<textVars, rev, heap, calls, last, attached, sealedTo, mutex, res>>

\* the recursion has no end: the runtime ends the program (fatal error:
\* stack overflow)
StackOverflow(t) ==
  /\ Active(t) /\ Top(t).pc = "call"
  /\ IsNode(heap[Top(t).se].err)
  /\ Len(stack[t]) >= MaxDepth
  /\ res' = [res EXCEPT ![t].st = "overflow"]
  /\ stack' = [stack EXCEPT ![t] = <<>>]
  /\ UNCHANGED <<textVars, rev, heap, calls, last, attached, sealedTo, mutex>>

\* selfError after the call: the operand of se.recurs[:len(se.recurs)-1] is
\* read; slicing an empty list panics (slice bounds out of range [:-1]),
\* which ends the program
SelfErrorSlice(t) ==
  /\ rev # "plain"
  /\ Active(t) /\ Top(t).pc = "returned"
  /\ IF Len(heap[Top(t).se].recurs) = 0
       THEN /\ res' = [res EXCEPT ![t].st = "panic"]
            /\ stack' = [stack EXCEPT ![t] = <<>>]
       ELSE /\ res' = res
            /\ stack' = SetTop(t, [Top(t) EXCEPT !.pc = "slice",
                                                 !.seen = heap[Top(t).se].recurs])
  /\ UNCHANGED <<textVars, rev, heap, calls, last, attached, sealedTo, mutex>>

\* selfError: the guard list is cut by one and the write lock released
SelfErrorPop(t) ==
  /\ Active(t) /\ Top(t).pc = "slice"
  /\ heap' = [heap EXCEPT ![Top(t).se].recurs =
                              SubSeq(Top(t).seen, 1, Len(Top(t).seen) - 1)]
  /\ mutex' = IF rev = "mutex" THEN "none" ELSE mutex
  /\ stack' = SetTop(t, [Top(t) EXCEPT !.pc = "format"])
  /\ UNCHANGED <<textVars, rev, calls, last, attached, sealedTo, res>>

\* the text Error() returns for a value with a cause, given selfError's
\* result: s is set by the Sprintf when self is not empty, and then set
\* again, unconditionally, to message and attributes
ErrorText(se, self) ==
  LET own     == <<heap[se].error>> \o argsString(se)
      sprintf == own \o <<"; ">> \o self
      inIf    == IF NonEmpty(self) THEN sprintf ELSE <<>>
      afterIf == own
  IN IF rev = "plain" THEN sprintf ELSE afterIf

\* the end of Error() of a value with a cause
ErrorFormat(t) ==
  /\ Active(t)
  /\ Top(t).pc = (IF rev = "plain" THEN "returned" ELSE "format")
  /\ Return(t, ErrorText(Top(t).se, Top(t).self))
  /\ UNCHANGED <<textVars, rev, heap, calls, last, attached, sealedTo, mutex>>

(***************************************************************************)
(* The calling program: builder calls, one at a time and never while a     *)
(* render runs; a panic ends it.                                           *)
(***************************************************************************)
NoCall ==
  [op |-> "none", recv |-> 0, cause |-> 0, args |-> <<>>, keys |-> <<>>,
   ret |-> 0, panicked |-> FALSE]

Unsealed == [count |-> 0, keys |-> <<>>]

\* the error values a call may be handed: nil, the plain error, any sError
Errs == {0, PlainErr} \cup (1..Len(heap))

CanCall ==
  /\ ~Running /\ ~last.panicked /\ ~Overflowed
  /\ calls < MaxCalls

\* the state after a builder call that ended in m; att is the cause now
\* attached to the error built, from the value the new values were cloned
\* of (0 when they are fresh)
Commit(m, call, att, from) ==
  /\ Len(m.heap) <= MaxNodes
  /\ heap' = m.heap
  /\ calls' = calls + 1
  /\ last' = [call EXCEPT !.ret = m.ret, !.panicked = m.panicked]
  /\ attached' =
       [i \in 1..Len(m.heap) |->
          IF i > Len(heap) THEN att
          ELSE IF ~m.panicked /\ (i = m.ret \/ (call.op = "Err" /\ i = call.recv))
            THEN att
          ELSE attached[i]]
  /\ sealedTo' =
       [i \in 1..Len(m.heap) |->
          IF i > Len(heap)
            THEN (IF from >= 1 THEN sealedTo[from] ELSE Unsealed)
          ELSE IF call.op = "ValidArgs" /\ i = call.recv
            THEN [count |-> IF sealedTo[i].count = 0 THEN 1 ELSE 2,
                  keys |-> IF sealedTo[i].count = 0 THEN call.keys ELSE sealedTo[i].keys]
          ELSE sealedTo[i]]
  /\ res' = [t \in Threads |-> NoRes]
  /\ UNCHANGED <<textVars, rev, stack, mutex>>

CallNew ==
  /\ CanCall
  /\ \E msg \in Msgs :
       Commit(New(Start(heap), msg), [NoCall EXCEPT !.op = "New"], 0, 0)

\* Cast; revision "plain" is called on the plain error only, where its
\* embedded error is a message
CallCast ==
  /\ CanCall
  /\ \E err \in Errs, args \in ErrArgLists :
       /\ rev = "plain" => (err = PlainErr /\ args = <<>>)
       /\ Commit(Cast(Start(heap), err, args),
                 [NoCall EXCEPT !.op = "Cast", !.cause = err, !.args = args],
                 IF IsNode(err) THEN attached[err] ELSE 0,
                 IF IsNode(err) THEN err ELSE 0)

CallWrap ==
  /\ CanCall
  /\ \E err \in Errs, msg \in Msgs, args \in ErrArgLists :
       Commit(Wrap(Start(heap), err, msg, args),
              [NoCall EXCEPT !.op = "Wrap", !.cause = err, !.args = args],
              err, 0)

CallArgs ==
  /\ CanCall
  /\ \E se \in 1..Len(heap), args \in ArgLists :
       Commit(Args(Start(heap), se, args),
              [NoCall EXCEPT !.op = "Args", !.recv = se, !.args = args],
              attached[se], se)

CallErr ==
  /\ CanCall
  /\ \E se \in 1..Len(heap), err \in Errs, args \in ErrArgLists :
       Commit(Err(Start(heap), se, err, args),
              [NoCall EXCEPT !.op = "Err", !.recv = se, !.cause = err, !.args = args],
              err, se)

CallValidArgs ==
  /\ CanCall
  /\ \E se \in 1..Len(heap), keys \in KeyLists :
       Commit(ValidArgs(Start(heap), se, keys),
              [NoCall EXCEPT !.op = "ValidArgs", !.recv = se, !.keys = keys],
              attached[se], se)

Init ==
  /\ rev \in Revisions
  /\ heap = <<>> /\ calls = 0 /\ last = NoCall
  /\ attached = <<>> /\ sealedTo = <<>>
  /\ stack = [t \in Threads |-> <<>>]
  /\ mutex = "none"
  /\ res = [t \in Threads |-> NoRes]
  /\ fn = "none" /\ s1 = <<>> /\ s2 = <<>> /\ nArg = 0 /\ b1 = <<>> /\ b2 = <<>>
  /\ start = 0 /\ end = 0 /\ r1 = <<>> /\ r2 = <<>> /\ tpc = "done"

\* a step of a call of Error() in progress
Run(t) ==
  \/ ErrorNoCause(t)
  \/ ErrorWithCause(t)
  \/ SelfErrorRecursing(t)
  \/ SelfErrorLock(t)
  \/ SelfErrorPush(t)
  \/ CallPlain(t)
  \/ CallNode(t)
  \/ StackOverflow(t)
  \/ SelfErrorSlice(t)
  \/ SelfErrorPop(t)
  \/ ErrorFormat(t)

Render(t) ==
  \/ ErrorCall(t)
  \/ Run(t)

Next ==
  \/ CallNew
  \/ CallCast
  \/ CallWrap
  \/ CallArgs
  \/ CallErr
  \/ CallValidArgs
  \/ \E t \in Callers : Render(t)

Spec == Init /\ [][Next]_vars

TextSpec == TextInit /\ [][TextNext]_vars

(***************************************************************************)
(* Goroutines that render error chains built beforehand, concurrently.     *)
(***************************************************************************)
\* Wrap(errors.New("io"), "m")
WrapPlain == Wrap(Start(<<>>), PlainErr, "m", <<>>)

\* Wrap(New("boom"), "context")
WrapNew == Wrap(New(Start(<<>>), "boom"), 1, "context", <<>>)

\* Wrap(Wrap(New("boom"), "context"), "m")
WrapWrap == Wrap(WrapNew, WrapNew.ret, "m", <<>>)

\* e := New("m"); e.Err(e)
SelfCause == Err(New(Start(<<>>), "m"), 1, 1, <<>>)

\* the values the programs above leave behind
Chains == {WrapPlain.heap, WrapNew.heap, WrapWrap.heap, SelfCause.heap}

RenderInit ==
  /\ rev \in Revisions
  /\ heap \in Chains
  /\ calls = 0 /\ last = NoCall
  /\ attached = [i \in 1..Len(heap) |-> 0]
  /\ sealedTo = [i \in 1..Len(heap) |-> Unsealed]
  /\ stack = [t \in Threads |-> <<>>]
  /\ mutex = "none"
  /\ res = [t \in Threads |-> NoRes]
  /\ fn = "none" /\ s1 = <<>> /\ s2 = <<>> /\ nArg = 0 /\ b1 = <<>> /\ b2 = <<>>
  /\ start = 0 /\ end = 0 /\ r1 = <<>> /\ r2 = <<>> /\ tpc = "done"

\* a goroutine is started to make its one call of Error()
Go(t) ==
  /\ res[t].st = "none"
  /\ ErrorCall(t)

RenderNext == \E t \in Threads : Go(t) \/ Run(t)

RenderSpec == RenderInit /\ [][RenderNext]_vars

\* A goroutine inside Error() keeps running, and one that waits for the
\* mutex gets it when it is released again and again (sync.Mutex hands the
\* lock to a starving waiter; a pending Lock holds new readers back).
FairRenderSpec ==
  /\ RenderSpec
  /\ \A t \in Threads :
       /\ WF_vars(Run(t))
       /\ SF_vars(SelfErrorRecursing(t))
       /\ SF_vars(SelfErrorLock(t))

(***************************************************************************)
(* What the structured error is expected to do.                            *)
(***************************************************************************)
Nodes == 1..Len(heap)

\* the sError values reached from e by following causes, e included
RECURSIVE Chain(_, _)
Chain(e, seen) ==
  IF ~IsNode(e) \/ e \in seen THEN seen
  ELSE Chain(heap[e].err, seen \cup {e})

\* the cause chain of se runs into a cycle
Cyclic(se) == \E x \in Chain(se, {}) : IsNode(heap[x].err) /\ x \in Chain(heap[x].err, {})

\* " [key=value]" for each attribute pair in order
RECURSIVE AttrText(_)
AttrText(args) ==
  IF Len(args) < 2 THEN <<>>
  ELSE <<" [">> \o FmtV(args[1]) \o <<"=">>
       \o (IF args[2].t = "string" THEN <<"'", args[2].s, "'">> ELSE FmtV(args[2]))
       \o <<"]">> \o AttrText(SubSeq(args, 3, Len(args)))

\* the rendering of a value whose cause chain has no cycle
RECURSIVE Rendering(_)
Rendering(e) ==
  IF e = PlainErr THEN <<PlainMsg>>
  ELSE <<heap[e].error>> \o AttrText(heap[e].args)
       \o (IF heap[e].err = 0 THEN <<>> ELSE <<"; ">> \o Rendering(heap[e].err))

\* goroutine t waits for the mutex while holding its write lock itself: no
\* other goroutine can release it
SelfBlocked(t) ==
  /\ rev = "mutex"
  /\ stack[t] # <<>>
  /\ Top(t).pc \in {"recursing", "lock"}
  /\ mutex = t

\* C1: Error() returns the message, " [key=value]" for each attribute pair
\* in order and, when a cause outside any cycle is attached, "; " and the
\* cause's own rendering.
C1_ErrorRendering ==
  \A t \in Threads :
    (res[t].st = "done" /\ ~Cyclic(res[t].se)) =>
      res[t].text = Rendering(res[t].se)

\* C2: on a cause chain that contains a cycle Error() returns: it neither
\* recurses without end nor blocks forever, and a self-wrapped error renders
\* as its own message and attributes.
C2_CycleRenders ==
  \A t \in Threads :
    (res[t].st # "none" /\ Cyclic(res[t].se)) =>
      /\ res[t].st # "overflow"
      /\ ~SelfBlocked(t)
      /\ (res[t].st = "done" /\ heap[res[t].se].err = res[t].se) =>
           res[t].text = <<heap[res[t].se].error>> \o AttrText(heap[res[t].se].args)

\* C3: every attribute list has even length, and a call that supplies an odd
\* number of attributes for an error panics.
C3_EvenAttributes ==
  /\ \A i \in Nodes : Len(heap[i].args) % 2 = 0
  /\ (last.op \in {"Args", "Err", "Wrap"} /\ Len(last.args) % 2 = 1)
       => last.panicked

\* C4: the first ValidArgs call on an error succeeds and records its keys,
\* every later one panics, and the recorded keys never change.
C4_ValidArgsSeal ==
  /\ \A i \in Nodes :
       sealedTo[i].count >= 1 => heap[i].validArgs = sealedTo[i].keys
  /\ last.op = "ValidArgs" =>
       (last.panicked <=> sealedTo[last.recv].count = 2)

\* C5: Unwrap of the value a builder chain returned is the cause most
\* recently attached (nil after New alone).
C5_UnwrapCause ==
  (last.op \in {"New", "Err", "Wrap", "Args"} /\ ~last.panicked) =>
    Unwrap(last.ret) = attached[last.ret]

\* goroutine t has se in se's guard list: appended by a call of se.Error()
\* of t that has not cut it off again (revision "plain" has no guard list)
Registered(t, se) ==
  /\ rev # "plain"
  /\ \E k \in 1..Len(stack[t]) :
       stack[t][k].se = se /\ stack[t][k].pc \in {"call", "returned", "slice"}

\* C11: no two goroutines have the same value registered as in progress at
\* the same time, and recursing() answers yes only to a goroutine that has
\* the value registered itself, further out in the same render (a real
\* cycle), so no cause is suppressed because of another goroutine's render.
C11_GuardExclusive ==
  /\ \A t, u \in Threads : \A se \in Nodes :
       (t # u) => ~(Registered(t, se) /\ Registered(u, se))
  /\ \A t \in Threads : \A k \in 1..Len(stack[t]) :
       stack[t][k].yes =>
         \E j \in 1..(k - 1) : stack[t][j].se = stack[t][k].se

\* se has a cause that is a structured error with a cause of its own
Nested(se) ==
  /\ IsNode(heap[se].err)
  /\ heap[heap[se].err].err # 0

\* C12: a call of Error() on a value of an acyclic chain whose cause is a
\* structured error that has a cause itself always returns, whatever the
\* other goroutines render.
C12_NestedRenderReturns ==
  \A t \in Threads :
    (res[t].st = "running" /\ Nested(res[t].se) /\ ~Cyclic(res[t].se))
      ~> (res[t].st = "done")

\* C13: Args and Err return their receiver, Args changes nothing of it but
\* the attribute list, and Err without attributes nothing but the cause.
C13_InPlaceBuilders ==
  [][ (calls' = calls + 1 /\ last'.op \in {"Args", "Err"} /\ ~last'.panicked) =>
        /\ last'.ret = last'.recv
        /\ (last'.op = "Args") =>
             heap'[last'.recv] = [heap[last'.recv] EXCEPT !.args = last'.args]
        /\ (last'.op = "Err" /\ last'.args = <<>>) =>
             heap'[last'.recv] = [heap[last'.recv] EXCEPT !.err = last'.cause]
    ]_vars

\* C14: a builder call that panics leaves the cause and the attribute list
\* of every error that existed before the call as they were.
C14_PanicLeavesUnchanged ==
  [][ (calls' = calls + 1 /\ last'.panicked) =>
        \A i \in 1..Len(heap) :
          /\ heap'[i].err = heap[i].err
          /\ heap'[i].args = heap[i].args
    ]_vars

====
